---- MODULE Spec2Model ----
(***************************************************************************)
(* A model of the js-common-geometry library: the tolerance predicates of  *)
(* Utils.js, the vector algebra and relation queries of Point.js, the      *)
(* segment relations of LineSegment.js and the Triangle, Rectangle and     *)
(* Polygon shapes built on normalized vertex lists.                        *)
(*                                                                         *)
(* Numbers.  Every coordinate of the model is an integer, and so is every  *)
(* sum, difference and product the modelled code computes from them; the   *)
(* tolerance Config.EPS is the rational EPS_NUM / EPS_DEN.  A comparison   *)
(* of the code such as  x < y + EPS  is evaluated exactly: for an integer  *)
(* d,  d <= EPS  iff  d <= EpsFloor  and  d < EPS  iff  d <= EpsBelow.     *)
(* Lengths (Math.sqrt of a sum of squares) are carried as their squares.   *)
(***************************************************************************)
EXTENDS Integers, Sequences, FiniteSets

VARIABLES
  yAxis,      \* Config.Y_AXIS_DIRECTION: "up" or "down"
  vertexes,   \* the vertex list handed to an operation (a sequence of points)
  other,      \* the second vertex list of a two-shape operation
  point,      \* the point handed to a point-vs-shape query
  segA,       \* the receiver of a LineSegment query, <<start, end>>
  segB,       \* the argument of a LineSegment query, <<start, end>>
  args,       \* the remaining arguments of the operation (a record), if any
  op,         \* the operation that ran last ("init" before any)
  result,     \* what it returned (None when it threw)
  thrown      \* whether it threw an Error

vars == <<yAxis, vertexes, other, point, segA, segB, args, op, result, thrown>>

----------------------------------------------------------------------------
(* Bounds of the model. *)

\* Coordinates of the input points range over 0..MaxCoord.
MaxCoord == 2

\* Vertex counts of the input vertex lists.
Sizes == {1, 2, 3, 4}

Coords == 0..MaxCoord
Points == [x : Coords, y : Coords]
VertexLists == UNION {[1..n -> Points] : n \in Sizes}

None == "none"
\* What a constructor that throws yields in place of an object.
Throw == [error |-> "Error"]

----------------------------------------------------------------------------
(* Config.js *)

EPS_NUM == 1
EPS_DEN == 100000000

\* The largest integer d with d <= EPS, and the largest with d < EPS.
EpsFloor == EPS_NUM \div EPS_DEN
EpsBelow == (EPS_NUM - 1) \div EPS_DEN

----------------------------------------------------------------------------
(* Utils.js: tolerance predicates *)

Abs(x) == IF x < 0 THEN -x ELSE x
Min(x, y) == IF x < y THEN x ELSE y
Max(x, y) == IF x > y THEN x ELSE y

\* Math.abs(x - y) <= EPS
eq(x, y) == Abs(x - y) <= EpsFloor

\* Math.abs(x - y) > EPS
neq(x, y) == ~(Abs(x - y) <= EpsFloor)

\* x < y + EPS
lt(x, y) == x - y <= EpsBelow

\* x <= y + EPS
leq(x, y) == x - y <= EpsFloor

\* x + EPS > y
gt(x, y) == y - x <= EpsBelow

\* x + EPS >= y
geq(x, y) == y - x <= EpsFloor

\* Math.abs(x) <= EPS
isZero(x) == Abs(x) <= EpsFloor

\* Math.abs(x) > EPS
isNonZero(x) == ~(Abs(x) <= EpsFloor)

\* x > EPS
isPositive(x) == ~(x <= EpsFloor)

\* x < -EPS
isNegative(x) == ~(-x <= EpsFloor)

\* x <= EPS
isNonPositive(x) == x <= EpsFloor

\* x >= EPS
isNonNegative(x) == ~(x <= EpsBelow)

sign(x) == IF isZero(x) THEN 0 ELSE IF x < 0 THEN -1 ELSE 1

\* ((x % n) + n) % n, with JavaScript's truncating %
\* (which is the mathematical remainder for n > 0)
modulo(x, n) == x % n

----------------------------------------------------------------------------
(* Point.js: vector algebra *)

Pt(px, py) == [x |-> px, y |-> py]

add(p, off) == Pt(p.x + off.x, p.y + off.y)

subtract(p, off) == Pt(p.x - off.x, p.y - off.y)

cross(p, q) == p.x * q.y - p.y * q.x

dot(p, q) == p.x * q.x + p.y * q.y

\* (p1 - p0) x (p2 - p0)
times(p0, p1, p2) == (p1.x - p0.x) * (p2.y - p0.y) - (p1.y - p0.y) * (p2.x - p0.x)

\* Math.sin and Math.cos of a rotation by k quarter turns.  The doubles the
\* code computes differ from these values by less than 1e-15, far below EPS,
\* and so does every coordinate computed from them.
QuarterSin(k) == CASE k % 4 = 0 -> 0 [] k % 4 = 1 -> 1 [] k % 4 = 2 -> 0 [] OTHER -> -1
QuarterCos(k) == CASE k % 4 = 0 -> 1 [] k % 4 = 1 -> 0 [] k % 4 = 2 -> -1 [] OTHER -> 0

rotateImpl(p, o, sin, cos) ==
  LET dx == p.x - o.x
      dy == p.y - o.y
  IN  Pt(o.x + dx * cos - dy * sin, o.y + dx * sin + dy * cos)

\* p.rotate(o, angle) for an angle of k quarter turns.
pointRotate(p, o, k) == rotateImpl(p, o, QuarterSin(k), QuarterCos(k))

pointEquals(p, q) == eq(p.x, q.x) /\ eq(p.y, q.y)

pointCompareTo(p, q) ==
  IF ~eq(p.x, q.x) THEN (IF p.x < q.x THEN -1 ELSE 1)
  ELSE IF ~eq(p.y, q.y) THEN (IF p.y < q.y THEN -1 ELSE 1)
  ELSE 0

----------------------------------------------------------------------------
(* Utils.js: normalization of vertex lists.  A JavaScript array is a        *)
(* sequence; index i of the array is position i + 1 of the sequence.        *)

At(v, i) == v[i + 1]

\* The value of v[i] when i may lie beyond the end of the array.
Undefined == [undefined |-> TRUE]
AtOrUndefined(v, i) == IF i < Len(v) THEN v[i + 1] ELSE Undefined

Reverse(v) == [i \in 1..Len(v) |-> v[Len(v) + 1 - i]]

isClockwise(v) ==
  IF Len(v) < 3 THEN FALSE
  ELSE LET u == subtract(At(v, 0), At(v, 1))
           w == subtract(At(v, 2), At(v, 1))
       IN  isNegative(cross(u, w))

makeClockwise(v) == IF isClockwise(v) THEN v ELSE Reverse(v)

\* One test of the scan: does vertex v replace the current topLeft?
isTopLeftOf(v, topLeft) ==
  IF yAxis = "up"
  THEN gt(v.y, topLeft.y) \/ (eq(v.y, topLeft.y) /\ lt(v.x, topLeft.x))
  ELSE lt(v.y, topLeft.y) \/ (eq(v.y, topLeft.y) /\ lt(v.x, topLeft.x))

RECURSIVE findTopLeftFrom(_, _, _)
findTopLeftFrom(v, i, topLeftIndex) ==
  IF i >= Len(v) THEN topLeftIndex
  ELSE findTopLeftFrom(v, i + 1,
         IF isTopLeftOf(At(v, i), At(v, topLeftIndex)) THEN i ELSE topLeftIndex)

findTopLeftIndex(v) == findTopLeftFrom(v, 1, 0)

normalize(vs) ==
  LET v == makeClockwise(vs)
      topLeftIndex == findTopLeftIndex(v)
      n == Len(v)
  IN  [i \in 1..n |-> At(v, (topLeftIndex + (i - 1)) % n)]

SetMin(S) == CHOOSE m \in S : \A e \in S : m <= e
SetMax(S) == CHOOSE m \in S : \A e \in S : m >= e

calculateBoundaries(v) ==
  LET xs == {v[i].x : i \in 1..Len(v)}
      ys == {v[i].y : i \in 1..Len(v)}
  IN  [left   |-> SetMin(xs),
       right  |-> SetMax(xs),
       top    |-> IF yAxis = "up" THEN SetMax(ys) ELSE SetMin(ys),
       bottom |-> IF yAxis = "up" THEN SetMin(ys) ELSE SetMax(ys)]

----------------------------------------------------------------------------
(* Triangle.js *)

triangleIsValid(v) ==
  /\ Len(v) = 3
  /\ isNonZero(times(At(v, 1), At(v, 0), At(v, 2)))

\* new Triangle(vertexes, normalized); with normalized = true nothing is
\* checked, and a, b, c are whatever the list holds at indexes 0, 1, 2.
Triangle(v, normalized) ==
  IF ~normalized /\ ~triangleIsValid(v) THEN Throw
  ELSE LET vs == IF normalized THEN v ELSE normalize(v)
       IN  [vertexes |-> vs,
            a |-> AtOrUndefined(vs, 0), b |-> AtOrUndefined(vs, 1),
            c |-> AtOrUndefined(vs, 2),
            boundary |-> calculateBoundaries(vs)]

\* A variant of area that takes a and b for the two edge vectors.
triangleArea2_FromOrigin(t) == Abs(cross(t.a, t.b))

\* Twice t.area(): |(a - b) x (a - c)|, before the division by 2.0.
triangleArea2(t) == Abs(cross(subtract(t.a, t.b), subtract(t.a, t.c)))

\* Three times t.center(): the sums, before the division by 3.0.
triangleCenter3(t) == Pt(t.a.x + t.b.x + t.c.x, t.a.y + t.b.y + t.c.y)

triangleEquals(t, u) ==
  pointEquals(t.a, u.a) /\ pointEquals(t.b, u.b) /\ pointEquals(t.c, u.c)

triangleCompareTo(t, u) ==
  IF pointCompareTo(t.a, u.a) # 0 THEN pointCompareTo(t.a, u.a)
  ELSE IF pointCompareTo(t.b, u.b) # 0 THEN pointCompareTo(t.b, u.b)
  ELSE pointCompareTo(t.c, u.c)

----------------------------------------------------------------------------
(* Polygon.js *)

polygonIsValid(v) ==
  /\ Len(v) >= 3
  /\ LET n == Len(v)
     IN  \A i \in 1..(n - 1) :
           ~isZero(times(At(v, i), At(v, i - 1), At(v, (i + 1) % n)))

\* new Polygon(vertexes, normalized)
Polygon(v, normalized) ==
  IF ~normalized /\ ~polygonIsValid(v) THEN Throw
  ELSE LET vs == IF normalized THEN v ELSE normalize(v)
       IN  [vertexes |-> vs, boundary |-> calculateBoundaries(vs)]

\* A LineSegment or Line is the pair of its end points.
Seg(s, e) == [start |-> s, end |-> e]

\* sides() of a Triangle, Rectangle or Polygon: side i joins vertex i to
\* vertex (i + 1) % n.
sides(shape) ==
  LET v == shape.vertexes
      n == Len(v)
  IN  [i \in 1..n |-> Seg(v[i], At(v, i % n))]

----------------------------------------------------------------------------
(* Rectangle.js *)

\* The square of p.distanceTo(q).
distanceTo2(p, q) == (p.x - q.x) * (p.x - q.x) + (p.y - q.y) * (p.y - q.y)

\* eq(Math.sqrt(a2), Math.sqrt(b2)) for integers a2, b2 >= 0: two distinct
\* square roots differ by at least 1 / (sqrt(a2) + sqrt(b2)), which exceeds
\* EPS for all a2, b2 the model reaches.
eqLength(a2, b2) == a2 = b2

rectangleIsValid(v) ==
  /\ Len(v) = 4
  /\ ~pointEquals(At(v, 0), At(v, 1))
  /\ ~pointEquals(At(v, 1), At(v, 2))
  /\ eqLength(distanceTo2(At(v, 0), At(v, 1)), distanceTo2(At(v, 2), At(v, 3)))
  /\ eqLength(distanceTo2(At(v, 1), At(v, 2)), distanceTo2(At(v, 3), At(v, 0)))
  /\ eqLength(distanceTo2(At(v, 0), At(v, 2)), distanceTo2(At(v, 1), At(v, 3)))

\* new Rectangle(vertexes, normalized); with normalized = true nothing is
\* checked, but _calculateCorners reads the x of the first four elements and
\* so throws a TypeError on a list of fewer than four points.
Rectangle(v, normalized) ==
  IF ~normalized /\ ~rectangleIsValid(v) THEN Throw
  ELSE IF Len(v) < 4 THEN Throw
  ELSE LET vs == IF normalized THEN v ELSE normalize(v)
           boundary == calculateBoundaries(vs)
       IN  [vertexes |-> vs,
            left |-> boundary.left, right |-> boundary.right,
            top |-> boundary.top, bottom |-> boundary.bottom]

isParallelToAxis(r) ==
  eq(At(r.vertexes, 0).x, r.left) /\ eq(At(r.vertexes, 0).y, r.top)

rectangleEquals(r, o) ==
  \A i \in 0..3 : pointEquals(At(r.vertexes, i), At(o.vertexes, i))

----------------------------------------------------------------------------
(* Point.js: relations of a point to a line, a segment, a polygon *)

\* Config.NEGATIVE_INF, the far end of the ray of relationToPolygon.  The
\* code's value is -1e20; the model's lies far to the left of every input
\* coordinate as well, and the code uses it only through signs of cross
\* products, which are linear in it.
NEGATIVE_INF == -1000

isOnLine(p, l) ==
  LET u == subtract(l.end, l.start)
      v == subtract(p, l.start)
  IN  isZero(cross(u, v))

isOnLineSegment(p, l) ==
  LET u == subtract(l.end, l.start)
      v == subtract(p, l.start)
      w == subtract(p, l.end)
      r == cross(u, v)
  IN  /\ isZero(r)
      /\ sign(v.x) * sign(w.x) <= 0
      /\ sign(v.y) * sign(w.y) <= 0

\* A variant of relationToLine that takes l.end itself for the direction.
relationToLine_FromOrigin(p, l) ==
  LET u == l.end
      v == subtract(p, l.start)
      r == cross(u, v)
  IN  IF isZero(r) THEN "on" ELSE IF r > 0 THEN "left" ELSE "right"

relationToLine(p, l) ==
  LET u == subtract(l.end, l.start)
      v == subtract(p, l.start)
      r == cross(u, v)
  IN  IF isZero(r) THEN "on" ELSE IF r > 0 THEN "left" ELSE "right"

----------------------------------------------------------------------------
(* Line.js *)

\* new Line(start, end)
Line(start, end) ==
  IF pointEquals(start, end) THEN Throw ELSE Seg(start, end)

\* l.rotate(o, angle) for an angle of k quarter turns.  Both newStart and
\* newEnd are computed from this.start.
lineRotate(l, o, k) ==
  LET sin == QuarterSin(k)
      cos == QuarterCos(k)
      newStart == rotateImpl(l.start, o, sin, cos)
      newEnd == rotateImpl(l.start, o, sin, cos)
  IN  Line(newStart, newEnd)

----------------------------------------------------------------------------
(* Line.js: relations of two lines *)

\* l.isCollinearWith(o)
lineIsCollinearWith(l, o) ==
  LET u == subtract(l.end, l.start)
      v == subtract(o.end, o.start)
  IN  IF isZero(cross(u, v))
      THEN LET w == subtract(l.start, o.start)
           IN  isZero(cross(w, v))
      ELSE FALSE

\* l.equals(o)
lineEquals(l, o) == lineIsCollinearWith(l, o)

\* l.compareTo(o)
lineCompareTo(l, o) ==
  LET u == subtract(l.end, l.start)
      v == subtract(o.end, o.start)
      r == cross(v, u)
  IN  IF isZero(r)
      THEN LET w == subtract(l.start, o.start)
           IN  sign(cross(w, v))
      ELSE sign(r)

\* l.relationTo(o)
lineRelationTo(l, o) ==
  LET u == subtract(l.end, l.start)
      v == subtract(o.end, o.start)
  IN  IF isZero(cross(u, v))
      THEN LET w == subtract(l.start, o.start)
           IN  IF isZero(cross(w, v)) THEN "collinear" ELSE "parallel"
      ELSE "intersect"

\* What intersectionPointWith returns: one of two strings, or the Point
\* (x / r, y / r), kept as the two numerators and the denominator.
Outcome(name) == [kind |-> name]
RationalPoint(x, y, r) == [kind |-> "Point", x |-> x, y |-> y, r |-> r]

\* A variant of intersectionPointWith that tests only a1 * c2 = a2 * c1 to
\* tell collinear from parallel lines.
lineIntersectionPointWith_HalfTest(l1, l) ==
  LET a1 == l1.end.y - l1.start.y
      b1 == l1.start.x - l1.end.x
      c1 == l1.end.x * l1.start.y - l1.start.x * l1.end.y
      a2 == l.end.y - l.start.y
      b2 == l.start.x - l.end.x
      c2 == l.end.x * l.start.y - l.start.x * l.end.y
      r1 == a1 * b2
      r2 == a2 * b1
  IN  IF eq(r1, r2)
      THEN IF eq(a1 * c2, a2 * c1) THEN Outcome("collinear") ELSE Outcome("parallel")
      ELSE RationalPoint(b1 * c2 - b2 * c1, a2 * c1 - a1 * c2, r1 - r2)

\* l1.intersectionPointWith(l)
lineIntersectionPointWith(l1, l) ==
  LET a1 == l1.end.y - l1.start.y
      b1 == l1.start.x - l1.end.x
      c1 == l1.end.x * l1.start.y - l1.start.x * l1.end.y
      a2 == l.end.y - l.start.y
      b2 == l.start.x - l.end.x
      c2 == l.end.x * l.start.y - l.start.x * l.end.y
      r1 == a1 * b2
      r2 == a2 * b1
  IN  IF eq(r1, r2)
      THEN IF eq(a1 * c2, a2 * c1) /\ eq(b1 * c2, b2 * c1)
           THEN Outcome("collinear")
           ELSE Outcome("parallel")
      ELSE RationalPoint(b1 * c2 - b2 * c1, a2 * c1 - a1 * c2, r1 - r2)

\* p.isOnLine(l) for the point p = (x / r, y / r): the cross product
\* u x (p - l.start) is the integer below divided by r, and |r| * EPS < 1.
rationalIsOnLine(p, l) ==
  LET u == subtract(l.end, l.start)
      vx == p.x - p.r * l.start.x
      vy == p.y - p.r * l.start.y
  IN  u.x * vy - u.y * vx = 0

----------------------------------------------------------------------------
(* Polygon.js: convexity and rigid motions *)

\* g.isConvex(): every side has the vertex after it on the same side as the
\* first side has the third vertex.
polygonIsConvex(g) ==
  LET v == g.vertexes
      n == Len(v)
  IN  IF n < 3 THEN FALSE
      ELSE IF \E i \in 0..(n - 1) : Line(At(v, i), At(v, (i + 1) % n)) = Throw
      THEN Throw
      ELSE LET firstSide == Line(At(v, 0), At(v, 1))
               relation == relationToLine(At(v, 2), firstSide)
           IN  \A i \in 1..(n - 1) :
                 LET side == Line(At(v, i), At(v, (i + 1) % n))
                     p == At(v, (i + 2) % n)
                 IN  relationToLine(p, side) = relation

\* g.rotate(o, angle) for an angle of k quarter turns
polygonRotate(g, o, k) ==
  LET sin == QuarterSin(k)
      cos == QuarterCos(k)
      v == [i \in 1..Len(g.vertexes) |-> rotateImpl(g.vertexes[i], o, sin, cos)]
  IN  Polygon(v, FALSE)

\* g.translate(delta)
polygonTranslate(g, delta) ==
  Polygon([i \in 1..Len(g.vertexes) |-> add(g.vertexes[i], delta)], FALSE)

----------------------------------------------------------------------------
(* Rectangle: the nine anchors, rotation and translation *)

\* n / 2 for the even numbers n the specifications below produce: they draw
\* the coordinates of rectangles from multiples of a power of two, so that
\* every midpoint the code computes is an integer.
Half(n) == n \div 2

AnchorNames ==
  {"top-left", "top-right", "top-center", "bottom-left", "bottom-right",
   "bottom-center", "middle-left", "middle-right", "center"}

\* The map of anchors of _calculateCorners and of Rectangle.create, for the
\* four corners tl, tr, br, bl.
anchors(tl, tr, br, bl) ==
  [name \in AnchorNames |->
     CASE name = "top-left" -> tl
       [] name = "top-right" -> tr
       [] name = "top-center" -> Pt(Half(tl.x + tr.x), Half(tl.y + tr.y))
       [] name = "bottom-left" -> bl
       [] name = "bottom-right" -> br
       [] name = "bottom-center" -> Pt(Half(bl.x + br.x), Half(bl.y + br.y))
       [] name = "middle-left" -> Pt(Half(tl.x + bl.x), Half(tl.y + bl.y))
       [] name = "middle-right" -> Pt(Half(tr.x + br.x), Half(tr.y + br.y))
       [] OTHER -> Pt(Half(tl.x + br.x), Half(tl.y + br.y))]

\* this._corners of a rectangle
calculateCorners(r) ==
  anchors(At(r.vertexes, 0), At(r.vertexes, 1), At(r.vertexes, 2), At(r.vertexes, 3))

\* A variant of corner that answers every name with the top-left corner.
rectangleCorner_TopLeft(r, position) ==
  IF position \in AnchorNames THEN calculateCorners(r)["top-left"] ELSE Throw

\* A variant of corner that answers an unknown name with the centre.
rectangleCorner_Lenient(r, position) ==
  IF position \in AnchorNames THEN calculateCorners(r)[position]
  ELSE calculateCorners(r)["center"]

\* r.corner(position)
rectangleCorner(r, position) ==
  IF position \in AnchorNames THEN calculateCorners(r)[position] ELSE Throw

\* r.rotate(o, angle) for an angle of k quarter turns
rectangleRotate(r, o, k) ==
  LET sin == QuarterSin(k)
      cos == QuarterCos(k)
      newVertexes == [i \in 1..Len(r.vertexes) |->
                        rotateImpl(r.vertexes[i], o, sin, cos)]
  IN  Rectangle(newVertexes, FALSE)

\* r.translate(delta)
rectangleTranslate(r, delta) ==
  Rectangle([i \in 1..Len(r.vertexes) |-> add(r.vertexes[i], delta)], TRUE)

----------------------------------------------------------------------------
(* Rectangle.create *)

\* a % n of JavaScript: the remainder takes the sign of a.
JsRemainder(a, n) == IF a >= 0 THEN a % n ELSE -((-a) % n)

\* p.isOrigin()
isOrigin(p) == isZero(p.x) /\ isZero(p.y)

\* The rotation origin handed to create: a Point or a string.
OriginPoint(p) == [kind |-> "Point", point |-> p]
OriginName(name) == [kind |-> "string", name |-> name]

\* A variant of createCorners that leaves width and height unscaled.
createCorners_Unscaled(left, top, width, height, scale) ==
  LET tl == Pt(left, top)
      tr == Pt(left + width, top)
      dy == IF yAxis = "up" THEN -height ELSE height
      bl == Pt(left, top + dy)
      br == Pt(left + width, top + dy)
  IN  anchors(tl, tr, br, bl)

\* The first part of create: the nine anchors of the scaled rectangle.
createCorners(left, top, width, height, scale) ==
  LET w == width * scale
      h == height * scale
      tl == Pt(left, top)
      tr == Pt(left + w, top)
      dy == IF yAxis = "up" THEN -h ELSE h
      bl == Pt(left, top + dy)
      br == Pt(left + w, top + dy)
  IN  anchors(tl, tr, br, bl)

\* Rectangle.create(left, top, width, height, scale, rotation,
\* rotationOrigin, translate), for a rotation that is a multiple of 90
\* degrees.
rectangleCreate(left, top, width, height, scale, rotation, rotationOrigin, translate) ==
  LET corner == createCorners(left, top, width, height, scale)
      degrees == JsRemainder(rotation, 360)
      o == IF rotationOrigin.kind = "Point" THEN rotationOrigin.point
           ELSE IF rotationOrigin.name \in AnchorNames
                THEN corner[rotationOrigin.name]
                ELSE Undefined
      sin == QuarterSin(degrees \div 90)
      cos == QuarterCos(degrees \div 90)
      rotated == IF degrees # 0
                 THEN [key \in AnchorNames |-> rotateImpl(corner[key], o, sin, cos)]
                 ELSE corner
      translated == IF ~isOrigin(translate)
                    THEN [key \in AnchorNames |-> add(rotated[key], translate)]
                    ELSE rotated
      vertexes0 == <<translated["top-left"], translated["top-right"],
                     translated["bottom-right"], translated["bottom-left"]>>
  IN  IF degrees # 0 /\ o = Undefined THEN Throw
      ELSE Rectangle(vertexes0, TRUE)

----------------------------------------------------------------------------
(* LineSegment.js *)

\* A variant of the constructor that accepts equal end points.
LineSegment_Unchecked(start, end) == Seg(start, end)

\* new LineSegment(start, end)
LineSegment(start, end) ==
  IF pointEquals(start, end) THEN Throw ELSE Seg(start, end)

\* s.rotate(o, angle) for an angle of k quarter turns.  Both newStart and
\* newEnd are computed from this.start.
segmentRotate(s, o, k) ==
  LET sin == QuarterSin(k)
      cos == QuarterCos(k)
      newStart == rotateImpl(s.start, o, sin, cos)
      newEnd == rotateImpl(s.start, o, sin, cos)
  IN  LineSegment(newStart, newEnd)

segmentEquals(s, o) == pointEquals(s.start, o.start) /\ pointEquals(s.end, o.end)

\* A variant of isParallelWith that takes the dot product for the cross product.
isParallelWith_Dot(s, o) ==
  LET u == subtract(s.end, s.start)
      v == subtract(o.end, o.start)
  IN  isZero(dot(u, v))

isParallelWith(s, o) ==
  LET u == subtract(s.end, s.start)
      v == subtract(o.end, o.start)
  IN  isZero(cross(u, v))

\* A variant of intersectsWith that requires the end points of each segment
\* to lie strictly on opposite sides of the other.
intersectsWith_Strict(s, o) ==
  /\ geq(Max(s.start.x, s.end.x), Min(o.start.x, o.end.x))
  /\ leq(Min(s.start.x, s.end.x), Max(o.start.x, o.end.x))
  /\ geq(Max(s.start.y, s.end.y), Min(o.start.y, o.end.y))
  /\ leq(Min(s.start.y, s.end.y), Max(o.start.y, o.end.y))
  /\ isNegative(times(s.start, o.start, s.end) * times(s.start, o.end, s.end))
  /\ isNegative(times(o.start, s.start, o.end) * times(o.start, s.end, o.end))

\* A variant of intersectsWith without the four tests on the bounding boxes.
intersectsWith_NoBoxes(s, o) ==
  /\ isNonPositive(times(s.start, o.start, s.end) * times(s.start, o.end, s.end))
  /\ isNonPositive(times(o.start, s.start, o.end) * times(o.start, s.end, o.end))

intersectsWith(s, o) ==
  /\ geq(Max(s.start.x, s.end.x), Min(o.start.x, o.end.x))
  /\ leq(Min(s.start.x, s.end.x), Max(o.start.x, o.end.x))
  /\ geq(Max(s.start.y, s.end.y), Min(o.start.y, o.end.y))
  /\ leq(Min(s.start.y, s.end.y), Max(o.start.y, o.end.y))
  /\ isNonPositive(times(s.start, o.start, s.end) * times(s.start, o.end, s.end))
  /\ isNonPositive(times(o.start, s.start, o.end) * times(o.start, s.end, o.end))

\* sign(v) for the number v = n / r: v is within EPS of 0 only if n = 0
rationalSign(n, r) == IF n = 0 THEN 0 ELSE IF (n < 0) # (r < 0) THEN -1 ELSE 1

\* p.isOnLineSegment(l) for the point p = (x / r, y / r)
rationalIsOnLineSegment(p, l) ==
  LET u == subtract(l.end, l.start)
      vx == p.x - p.r * l.start.x
      vy == p.y - p.r * l.start.y
      wx == p.x - p.r * l.end.x
      wy == p.y - p.r * l.end.y
  IN  /\ u.x * vy - u.y * vx = 0
      /\ rationalSign(vx, p.r) * rationalSign(wx, p.r) <= 0
      /\ rationalSign(vy, p.r) * rationalSign(wy, p.r) <= 0

\* [p, q].sort((p1, p2) => p1.compareTo(p2))
sortPoints(p, q) == IF pointCompareTo(p, q) > 0 THEN <<q, p>> ELSE <<p, q>>

\* A variant of intersectionPointWith that answers 'collinear' for every
\* pair of segments on one line that are not apart.
segmentIntersectionPointWith_NoTouch(s, o) ==
  LET r == lineIntersectionPointWith(Line(s.start, s.end), Line(o.start, o.end))
  IN  IF r.kind = "parallel" THEN Outcome("parallel")
      ELSE IF r.kind = "collinear"
           THEN LET thisPoints == sortPoints(s.start, s.end)
                    otherPoints == sortPoints(o.start, o.end)
                    r1 == pointCompareTo(At(thisPoints, 1), At(otherPoints, 0))
                    r2 == pointCompareTo(At(otherPoints, 1), At(thisPoints, 0))
                IN  IF r1 < 0 \/ r2 < 0 THEN Outcome("disjoint")
                    ELSE Outcome("collinear")
      ELSE IF rationalIsOnLineSegment(r, s) /\ rationalIsOnLineSegment(r, o)
           THEN r
           ELSE Outcome("disjoint")

\* s.intersectionPointWith(o)
segmentIntersectionPointWith(s, o) ==
  LET r == lineIntersectionPointWith(Line(s.start, s.end), Line(o.start, o.end))
  IN  IF r.kind = "parallel" THEN Outcome("parallel")
      ELSE IF r.kind = "collinear"
           THEN LET thisPoints == sortPoints(s.start, s.end)
                    otherPoints == sortPoints(o.start, o.end)
                    r1 == pointCompareTo(At(thisPoints, 1), At(otherPoints, 0))
                    r2 == pointCompareTo(At(otherPoints, 1), At(thisPoints, 0))
                IN  IF r1 < 0 \/ r2 < 0 THEN Outcome("disjoint")
                    ELSE IF r1 = 0
                         THEN RationalPoint(At(thisPoints, 1).x, At(thisPoints, 1).y, 1)
                    ELSE IF r2 = 0
                         THEN RationalPoint(At(otherPoints, 1).x, At(otherPoints, 1).y, 1)
                    ELSE Outcome("collinear")
      ELSE IF rationalIsOnLineSegment(r, s) /\ rationalIsOnLineSegment(r, o)
           THEN r
           ELSE Outcome("disjoint")

segmentRelationTo(s, o) ==
  IF segmentEquals(s, o) THEN "equal"
  ELSE IF isParallelWith(s, o)
       THEN (IF isOnLine(s.start, o) THEN "collinear" ELSE "parallel")
  ELSE IF intersectsWith(s, o) THEN "intersect"
  ELSE "disjoint"

----------------------------------------------------------------------------
(* Point.relationToPolygon: ray casting *)

\* A variant of rayCrossing without the rule for a vertex on the ray.
rayCrossing_NoVertexRule(side, ray) ==
  IF eq(side.start.y, side.end.y) THEN 0
  ELSE IF intersectsWith(side, ray) THEN 1
  ELSE 0

\* What one side adds to the crossing count c.
rayCrossing(side, ray) ==
  IF eq(side.start.y, side.end.y) THEN 0
  ELSE IF isOnLineSegment(side.start, ray)
       THEN (IF side.start.y > side.end.y THEN 1 ELSE 0)
  ELSE IF isOnLineSegment(side.end, ray)
       THEN (IF side.end.y > side.start.y THEN 1 ELSE 0)
  ELSE IF intersectsWith(side, ray) THEN 1
  ELSE 0

\* The loop over the sides from index i on, with c crossings counted so far.
RECURSIVE rayCast(_, _, _, _, _)
rayCast(p, ray, ss, i, c) ==
  IF i >= Len(ss) THEN (IF c % 2 = 1 THEN "inside" ELSE "outside")
  ELSE IF isOnLineSegment(p, At(ss, i)) THEN "on"
  ELSE rayCast(p, ray, ss, i + 1, c + rayCrossing(At(ss, i), ray))

relationToPolygon(p, polygon) ==
  LET ray == Seg(p, Pt(NEGATIVE_INF, p.y))
  IN  rayCast(p, ray, sides(polygon), 0, 0)

----------------------------------------------------------------------------
(* Point.relationToRectangle, Rectangle.isInsideRectangle and              *)
(* Rectangle.relationToRectangle                                           *)

\* The loop over the four sides of a rectangle not parallel to the axes.
RECURSIVE relationToSides(_, _, _)
relationToSides(p, ss, i) ==
  IF i >= 4 THEN "inside"
  ELSE LET s == At(ss, i)
           u == subtract(s.end, s.start)
           v == subtract(p, s.start)
           w == subtract(p, s.end)
           r == cross(u, v)
       IN  IF isZero(r)
           THEN (IF sign(v.x) * sign(w.x) <= 0 /\ sign(v.y) * sign(w.y) <= 0
                 THEN "on" ELSE "outside")
           ELSE IF r > 0 THEN "outside"
           ELSE relationToSides(p, ss, i + 1)

relationToRectangle(p, rectangle) ==
  IF isParallelToAxis(rectangle)
  THEN IF /\ geq(p.x, rectangle.left)
          /\ leq(p.x, rectangle.right)
          /\ geq(p.y, Min(rectangle.bottom, rectangle.top))
          /\ leq(p.y, Max(rectangle.bottom, rectangle.top))
       THEN (IF \/ eq(p.x, rectangle.left)
                \/ eq(p.x, rectangle.right)
                \/ eq(p.y, rectangle.top)
                \/ eq(p.y, rectangle.bottom)
             THEN "on" ELSE "inside")
       ELSE "outside"
  ELSE relationToSides(p, sides(rectangle), 0)

isOnRectangle(p, rectangle) == relationToRectangle(p, rectangle) = "on"

isInsideRectangle(this, o) ==
  IF isParallelToAxis(this) /\ isParallelToAxis(o)
  THEN IF yAxis = "up"
       THEN /\ geq(this.left, o.left)
            /\ leq(this.right, o.right)
            /\ leq(this.top, o.top)
            /\ geq(this.bottom, o.bottom)
       ELSE /\ geq(this.left, o.left)
            /\ leq(this.right, o.right)
            /\ geq(this.top, o.top)
            /\ leq(this.bottom, o.bottom)
  ELSE \A i \in 0..3 : \A j \in 0..3 :
         LET p == At(this.vertexes, i)
             s == At(sides(o), j)
             u == subtract(s.end, s.start)
             v == subtract(p, s.start)
         IN  ~isPositive(cross(u, v))

\* The function ends without a return statement when the rectangles are
\* neither equal nor nested: the caller receives undefined.
rectangleRelationTo(this, o) ==
  IF rectangleEquals(this, o) THEN "same"
  ELSE IF isInsideRectangle(this, o)
       THEN (IF \E i \in 0..3 : isOnRectangle(At(this.vertexes, i), o)
             THEN "inside_adjacently" ELSE "inside_exactly")
  ELSE IF isInsideRectangle(o, this)
       THEN (IF \E i \in 0..3 : isOnRectangle(At(o.vertexes, i), this)
             THEN "include_adjacently" ELSE "include_exactly")
  ELSE "undefined"

----------------------------------------------------------------------------
(* Exact plane geometry on integer points, used to state the claims. *)

\* p lies on the closed segment a-b.
OnSegment(p, a, b) ==
  /\ times(a, b, p) = 0
  /\ Min(a.x, b.x) <= p.x /\ p.x <= Max(a.x, b.x)
  /\ Min(a.y, b.y) <= p.y /\ p.y <= Max(a.y, b.y)

Sgn(x) == IF x = 0 THEN 0 ELSE IF x < 0 THEN -1 ELSE 1

\* The closed segments a-b and c-d have a point in common.
SegmentsMeet(a, b, c, d) ==
  \/ OnSegment(a, c, d) \/ OnSegment(b, c, d)
  \/ OnSegment(c, a, b) \/ OnSegment(d, a, b)
  \/ /\ Sgn(times(a, b, c)) * Sgn(times(a, b, d)) < 0
     /\ Sgn(times(c, d, a)) * Sgn(times(c, d, b)) < 0

\* Cyclic successor of position i in a list of length n.
Succ(i, n) == IF i = n THEN 1 ELSE i + 1

\* No three cyclically consecutive vertices are collinear.
NoCollinearTriple(v) ==
  LET n == Len(v)
  IN  \A i \in 1..n : times(v[i], v[Succ(i, n)], v[Succ(Succ(i, n), n)]) # 0

\* v is the boundary of a simple polygon: distinct vertices, and two edges
\* meet only when adjacent, and then only in their common vertex.
IsSimplePolygon(v) ==
  LET n == Len(v)
  IN  /\ n >= 3
      /\ \A i, j \in 1..n : i # j => v[i] # v[j]
      /\ \A i, j \in 1..n :
           i < j =>
             IF Succ(i, n) = j
             THEN ~OnSegment(v[Succ(j, n)], v[i], v[j]) /\ ~OnSegment(v[i], v[j], v[Succ(j, n)])
             ELSE IF Succ(j, n) = i
             THEN ~OnSegment(v[j], v[i], v[Succ(i, n)]) /\ ~OnSegment(v[Succ(i, n)], v[j], v[i])
             ELSE ~SegmentsMeet(v[i], v[Succ(i, n)], v[j], v[Succ(j, n)])

\* Twice the signed area: sum of x_i * y_(i+1) - x_(i+1) * y_i.
RECURSIVE ShoelaceFrom(_, _)
ShoelaceFrom(v, i) ==
  IF i > Len(v) THEN 0
  ELSE cross(v[i], v[Succ(i, Len(v))]) + ShoelaceFrom(v, i + 1)

Shoelace(v) == ShoelaceFrom(v, 1)

\* The extreme ("top") y of a list, and its top-left vertex.
IsTopLeft(p, v) ==
  /\ \A i \in 1..Len(v) : IF yAxis = "up" THEN p.y >= v[i].y ELSE p.y <= v[i].y
  /\ \A i \in 1..Len(v) : v[i].y = p.y => p.x <= v[i].x

----------------------------------------------------------------------------
(* The normalization operations applied to one input vertex list. *)

InitNormalize ==
  /\ yAxis \in {"up", "down"}
  /\ vertexes \in VertexLists
  /\ other = None
  /\ point = None
  /\ segA = None
  /\ segB = None
  /\ args = None
  /\ op = "init"
  /\ result = None
  /\ thrown = FALSE

Inputs == <<yAxis, vertexes, other, point, segA, segB, args>>

MakeClockwise ==
  /\ op' = "makeClockwise"
  /\ result' = makeClockwise(vertexes)
  /\ thrown' = FALSE
  /\ UNCHANGED Inputs

FindTopLeftIndex ==
  /\ op' = "findTopLeftIndex"
  /\ result' = findTopLeftIndex(vertexes)
  /\ thrown' = FALSE
  /\ UNCHANGED Inputs

Normalize ==
  /\ op' = "normalize"
  /\ result' = normalize(vertexes)
  /\ thrown' = FALSE
  /\ UNCHANGED Inputs

\* All orderings of a vertex list.
Orderings(v) ==
  LET n == Len(v)
      perms == {f \in [1..n -> 1..n] : \A i, j \in 1..n : i # j => f[i] # f[j]}
  IN  {[i \in 1..n |-> v[f[i]]] : f \in perms}

\* new Triangle(vertexes).equals(new Triangle(w)) and compareTo, for an
\* ordering w of the same vertexes.
TriangleEquals ==
  \E w \in Orderings(vertexes) :
    LET this == Triangle(vertexes, FALSE)
        t == Triangle(w, FALSE)
    IN  /\ op' = "Triangle.equals"
        /\ thrown' = (this = Throw \/ t = Throw)
        /\ result' = IF this = Throw \/ t = Throw THEN None
                      ELSE [this |-> this.vertexes, t |-> t.vertexes,
                            equals |-> triangleEquals(this, t),
                            compareTo |-> triangleCompareTo(this, t)]
        /\ UNCHANGED Inputs

NextNormalize ==
  \/ MakeClockwise
  \/ FindTopLeftIndex
  \/ Normalize
  \/ TriangleEquals

SpecNormalize == InitNormalize /\ [][NextNormalize]_vars

----------------------------------------------------------------------------
(* Point-in-polygon queries on one polygon and one point. *)

\* The input polygons: every vertex list, of either winding and from any
\* starting vertex, that is the boundary of a simple polygon.
PolygonSizes == {3, 4}
PolygonLists ==
  {v \in UNION {[1..n -> Points] : n \in PolygonSizes} : IsSimplePolygon(v)}

InitPolygon ==
  /\ yAxis \in {"up", "down"}
  /\ vertexes \in PolygonLists
  /\ other = None
  /\ point \in Points
  /\ segA = None
  /\ segB = None
  /\ args = None
  /\ op = "init"
  /\ result = None
  /\ thrown = FALSE

\* point.relationToPolygon(new Polygon(vertexes))
RelationToPolygon ==
  /\ op' = "relationToPolygon"
  /\ LET polygon == Polygon(vertexes, FALSE)
     IN  /\ thrown' = (polygon = Throw)
         /\ result' = IF polygon = Throw THEN None
                       ELSE relationToPolygon(point, polygon)
  /\ UNCHANGED Inputs

NextPolygon ==
  \/ RelationToPolygon

SpecPolygon == InitPolygon /\ [][NextPolygon]_vars

----------------------------------------------------------------------------
(* Rectangle queries: a rectangle built from a vertex list, against a      *)
(* point (SpecRectanglePoint) or another rectangle (SpecRectangles).       *)

\* The input lists: the four-point lists Rectangle.isValid accepts.
RectangleLists == {v \in [1..4 -> Points] : rectangleIsValid(v)}

InitRectanglePoint ==
  /\ yAxis \in {"up", "down"}
  /\ vertexes \in RectangleLists
  /\ other = None
  /\ point \in Points
  /\ segA = None
  /\ segB = None
  /\ args = None
  /\ op = "init"
  /\ result = None
  /\ thrown = FALSE

\* point.relationToRectangle(new Rectangle(vertexes))
RelationToRectangle ==
  /\ op' = "relationToRectangle"
  /\ LET rectangle == Rectangle(vertexes, FALSE)
     IN  /\ thrown' = (rectangle = Throw)
         /\ result' = IF rectangle = Throw THEN None
                       ELSE relationToRectangle(point, rectangle)
  /\ UNCHANGED Inputs

\* new Rectangle(vertexes).isParallelToAxis()
IsParallelToAxis ==
  /\ op' = "isParallelToAxis"
  /\ LET rectangle == Rectangle(vertexes, FALSE)
     IN  /\ thrown' = (rectangle = Throw)
         /\ result' = IF rectangle = Throw THEN None
                       ELSE isParallelToAxis(rectangle)
  /\ UNCHANGED Inputs

NextRectanglePoint ==
  \/ RelationToRectangle
  \/ IsParallelToAxis

SpecRectanglePoint == InitRectanglePoint /\ [][NextRectanglePoint]_vars

InitRectangles ==
  /\ yAxis \in {"up", "down"}
  /\ vertexes \in RectangleLists
  /\ other \in RectangleLists
  /\ point = None
  /\ segA = None
  /\ segB = None
  /\ args = None
  /\ op = "init"
  /\ result = None
  /\ thrown = FALSE

\* new Rectangle(vertexes).isInsideRectangle(new Rectangle(other))
IsInsideRectangle ==
  /\ op' = "isInsideRectangle"
  /\ LET this == Rectangle(vertexes, FALSE)
         o == Rectangle(other, FALSE)
     IN  /\ thrown' = (this = Throw \/ o = Throw)
         /\ result' = IF this = Throw \/ o = Throw THEN None
                       ELSE isInsideRectangle(this, o)
  /\ UNCHANGED Inputs

\* new Rectangle(vertexes).relationToRectangle(new Rectangle(other))
RectangleRelationTo ==
  /\ op' = "Rectangle.relationToRectangle"
  /\ LET this == Rectangle(vertexes, FALSE)
         o == Rectangle(other, FALSE)
     IN  /\ thrown' = (this = Throw \/ o = Throw)
         /\ result' = IF this = Throw \/ o = Throw THEN None
                       ELSE rectangleRelationTo(this, o)
  /\ UNCHANGED Inputs

NextRectangles ==
  \/ IsInsideRectangle
  \/ RectangleRelationTo

SpecRectangles == InitRectangles /\ [][NextRectangles]_vars

----------------------------------------------------------------------------
(* LineSegment queries on two segments. *)

\* The end points of the input segments: one column wider than Points, so
\* that a line carries two segments that are apart.
SegmentPoints == [x : 0..(MaxCoord + 1), y : Coords]

InitSegments ==
  /\ yAxis = "up"
  /\ vertexes = None
  /\ other = None
  /\ point = None
  /\ segA \in [start : SegmentPoints, end : SegmentPoints]
  /\ segB \in [start : SegmentPoints, end : SegmentPoints]
  /\ args = None
  /\ op = "init"
  /\ result = None
  /\ thrown = FALSE

\* new LineSegment(segA).relationTo(new LineSegment(segB))
SegmentRelationTo ==
  /\ op' = "LineSegment.relationTo"
  /\ LET a == LineSegment(segA.start, segA.end)
         b == LineSegment(segB.start, segB.end)
     IN  /\ thrown' = (a = Throw \/ b = Throw)
         /\ result' = IF a = Throw \/ b = Throw THEN None
                       ELSE segmentRelationTo(a, b)
  /\ UNCHANGED Inputs

\* new LineSegment(segA).intersectsWith(new LineSegment(segB))
SegmentIntersectsWith ==
  /\ op' = "LineSegment.intersectsWith"
  /\ LET a == LineSegment(segA.start, segA.end)
         b == LineSegment(segB.start, segB.end)
     IN  /\ thrown' = (a = Throw \/ b = Throw)
         /\ result' = IF a = Throw \/ b = Throw THEN None
                       ELSE intersectsWith(a, b)
  /\ UNCHANGED Inputs

\* new LineSegment(segA).intersectionPointWith(new LineSegment(segB)), with
\* new LineSegment(segA).intersectsWith(new LineSegment(segB))
SegmentIntersectionPointWith ==
  /\ op' = "LineSegment.intersectionPointWith"
  /\ LET a == LineSegment(segA.start, segA.end)
         b == LineSegment(segB.start, segB.end)
     IN  /\ thrown' = (a = Throw \/ b = Throw)
         /\ result' = IF a = Throw \/ b = Throw THEN None
                       ELSE [point |-> segmentIntersectionPointWith(a, b),
                             intersects |-> intersectsWith(a, b)]
  /\ UNCHANGED Inputs

NextSegments ==
  \/ SegmentRelationTo
  \/ SegmentIntersectsWith
  \/ SegmentIntersectionPointWith

SpecSegments == InitSegments /\ [][NextSegments]_vars

----------------------------------------------------------------------------
(* Claims about normalization (SpecNormalize). *)

IsValidShape(v) == triangleIsValid(v) \/ rectangleIsValid(v) \/ polygonIsValid(v)

\* C1: normalize is idempotent: for every valid vertex list v,
\* normalize(normalize(v)) is element by element the list normalize(v).
C1_NormalizeIdempotent ==
  (op = "normalize" /\ IsValidShape(vertexes)) => normalize(result) = result

\* C2: the first vertex of normalize(v) is the top-left vertex of v: it has
\* the extreme y (maximum for "up", minimum for "down") and, among the
\* vertices with that y, the minimum x.
C2_NormalizeStartsTopLeft ==
  op = "normalize" => IsTopLeft(result[1], vertexes)

\* C3: for a simple polygon with no three consecutive collinear vertices and
\* the Y axis "up", makeClockwise(v) is clockwise (negative shoelace sum) and
\* makeClockwise(v) and makeClockwise(reverse(v)) turn the same way.
C3_MakeClockwiseIsClockwise ==
  (/\ op = "makeClockwise"
   /\ yAxis = "up"
   /\ IsSimplePolygon(vertexes)
   /\ NoCollinearTriple(vertexes))
  => /\ Shoelace(result) < 0
     /\ Sgn(Shoelace(makeClockwise(Reverse(vertexes)))) = Sgn(Shoelace(result))

\* C4: the Triangles built from any two orderings of three non-collinear
\* points are equal: equals() is true and compareTo() is 0.
C4_TriangleOrderIndependent ==
  (op = "Triangle.equals" /\ ~thrown)
  => (result.equals /\ result.compareTo = 0)

----------------------------------------------------------------------------
(* Claims about point-in-polygon (SpecPolygon). *)

\* p lies on an edge of the polygon v.
OnBoundary(p, v) == \E i \in 1..Len(v) : OnSegment(p, v[i], v[Succ(i, Len(v))])

\* The edge a-b crosses the horizontal ray from p to the right (half-open
\* rule on y, so a vertex on the ray is counted once per passing boundary).
CrossesRightRay(p, a, b) ==
  /\ (a.y > p.y) # (b.y > p.y)
  /\ LET t == (p.x - a.x) * (b.y - a.y) - (p.y - a.y) * (b.x - a.x)
     IN  IF b.y > a.y THEN t < 0 ELSE t > 0

\* Even-odd rule: p, not on the boundary, is interior iff the ray crosses an
\* odd number of edges.
InInterior(p, v) ==
  Cardinality({i \in 1..Len(v) : CrossesRightRay(p, v[i], v[Succ(i, Len(v))])}) % 2 = 1

Classification(p, v) ==
  IF OnBoundary(p, v) THEN "on"
  ELSE IF InInterior(p, v) THEN "inside"
  ELSE "outside"

\* C5: for every simple polygon and every point, relationToPolygon is "on"
\* iff the point lies on an edge, else "inside" iff it is interior (even-odd
\* rule), else "outside"; also when the leftward ray passes through vertices
\* or runs along a horizontal edge.
C5_RelationToPolygonCorrect ==
  (op = "relationToPolygon" /\ ~thrown /\ IsSimplePolygon(vertexes))
  => result = Classification(point, vertexes)

\* An interior point whose leftward ray passes through a vertex.
C5_Witness ==
  /\ op = "relationToPolygon" /\ ~thrown /\ IsSimplePolygon(vertexes)
  /\ result = "inside"
  /\ \E i \in 1..Len(vertexes) :
       vertexes[i].y = point.y /\ vertexes[i].x < point.x

----------------------------------------------------------------------------
(* Claims about rectangles (SpecRectanglePoint, SpecRectangles). *)

\* C6: for every rectangle, parallel to the axes or rotated, built from a
\* vertex list of either winding, relationToRectangle is "on" iff the point
\* lies on a side, "inside" iff it is strictly interior, else "outside".
C6_RelationToRectangleCorrect ==
  (op = "relationToRectangle" /\ ~thrown /\ IsSimplePolygon(vertexes))
  => result = Classification(point, vertexes)

\* C7: A.isInside(B) is true iff every vertex of A lies in the closed region
\* of B (strictly inside B or on one of its sides), also for rectangles not
\* parallel to the axes.
C7_IsInsideRectangleCorrect ==
  (/\ op = "isInsideRectangle" /\ ~thrown
   /\ IsSimplePolygon(vertexes) /\ IsSimplePolygon(other))
  => (result <=> \A i \in 1..4 : Classification(vertexes[i], other) # "outside")

RectangleRelations ==
  {"same", "inside_exactly", "inside_adjacently", "include_exactly",
   "include_adjacently", "disjoint_exactly", "disjoint_adjacently", "intersect"}

\* C8: for every pair of rectangles the rectangle-vs-rectangle relation is one
\* of the eight named outcomes.
C8_RectangleRelationTotal ==
  (/\ op = "Rectangle.relationToRectangle" /\ ~thrown
   /\ IsSimplePolygon(vertexes) /\ IsSimplePolygon(other))
  => result \in RectangleRelations

----------------------------------------------------------------------------
(* Claims about line segments (SpecSegments). *)

\* The two segments have exactly one end point in common.
OneCommonEndpoint(a, b) ==
  Cardinality({a.start, a.end} \cap {b.start, b.end}) = 1

\* The two segments have parallel directions.
Parallel(a, b) == cross(subtract(a.end, a.start), subtract(b.end, b.start)) = 0

\* The two segments lie on one line.
OnOneLine(a, b) ==
  times(a.start, a.end, b.start) = 0 /\ times(a.start, a.end, b.end) = 0

RelationToRan == op = "LineSegment.relationTo" /\ ~thrown

\* C9 as stated: two segments with exactly one common end point report
\* "intersect".
C9_SharedEndpointIntersects ==
  (RelationToRan /\ OneCommonEndpoint(segA, segB)) => result = "intersect"

\* C9 as amended: two segments with exactly one common end point report
\* "intersect" when their directions are not parallel and "collinear" when
\* they are; never "disjoint".
C9_SharedEndpointIntersectsOrCollinear ==
  (RelationToRan /\ OneCommonEndpoint(segA, segB))
  => result = (IF Parallel(segA, segB) THEN "collinear" ELSE "intersect")

C9_Witness ==
  RelationToRan /\ OneCommonEndpoint(segA, segB) /\ result = "intersect"

\* C10 as stated: two segments on one line with no common point report
\* "disjoint".
C10_CollinearApartDisjoint ==
  (/\ RelationToRan /\ OnOneLine(segA, segB)
   /\ ~SegmentsMeet(segA.start, segA.end, segB.start, segB.end))
  => result = "disjoint"

\* C10 as amended: two segments on one line with no common point report
\* "collinear".
C10_CollinearApartCollinear ==
  (/\ RelationToRan /\ OnOneLine(segA, segB)
   /\ ~SegmentsMeet(segA.start, segA.end, segB.start, segB.end))
  => result = "collinear"

C10_Witness ==
  /\ RelationToRan /\ OnOneLine(segA, segB)
  /\ ~SegmentsMeet(segA.start, segA.end, segB.start, segB.end)
  /\ result = "collinear"

----------------------------------------------------------------------------
(* The constructors of the shapes applied to one vertex list and one value *)
(* of the `normalized` flag.                                               *)

InitConstruct ==
  /\ yAxis \in {"up", "down"}
  /\ vertexes \in VertexLists
  /\ other = None
  /\ point = None
  /\ segA = None
  /\ segB = None
  /\ args \in [normalized : BOOLEAN]
  /\ op = "init"
  /\ result = None
  /\ thrown = FALSE

\* new Triangle(vertexes, normalized)
NewTriangle ==
  LET t == Triangle(vertexes, args.normalized)
  IN  /\ op' = "new Triangle"
      /\ thrown' = (t = Throw)
      /\ result' = IF t = Throw THEN None ELSE t
      /\ UNCHANGED Inputs

\* new Rectangle(vertexes, normalized)
NewRectangle ==
  LET r == Rectangle(vertexes, args.normalized)
  IN  /\ op' = "new Rectangle"
      /\ thrown' = (r = Throw)
      /\ result' = IF r = Throw THEN None ELSE r
      /\ UNCHANGED Inputs

\* new Polygon(vertexes, normalized)
NewPolygon ==
  LET g == Polygon(vertexes, args.normalized)
  IN  /\ op' = "new Polygon"
      /\ thrown' = (g = Throw)
      /\ result' = IF g = Throw THEN None ELSE g
      /\ UNCHANGED Inputs

\* Rectangle.isValid(vertexes)
RectangleIsValid ==
  /\ op' = "Rectangle.isValid"
  /\ thrown' = FALSE
  /\ result' = rectangleIsValid(vertexes)
  /\ UNCHANGED Inputs

NextConstruct ==
  \/ NewTriangle
  \/ NewRectangle
  \/ NewPolygon
  \/ RectangleIsValid

SpecConstruct == InitConstruct /\ [][NextConstruct]_vars

----------------------------------------------------------------------------
(* Claims about construction (SpecConstruct). *)

\* C11: new Polygon(v) throws iff v has fewer than 3 vertices or some three
\* cyclically consecutive vertices (the triple centred on v[0] included) are
\* collinear; otherwise it succeeds.
C11_PolygonFailsFast ==
  (op = "new Polygon" /\ ~args.normalized)
  => (thrown <=> (Len(vertexes) < 3 \/ ~NoCollinearTriple(vertexes)))

\* v0-v1-v2-v3-v0 is a rectangle: four sides of non-zero length that meet at
\* right angles in each of the four corners.
IsRectangle(v) ==
  /\ Len(v) = 4
  /\ \A i \in 1..4 :
        LET a == v[i]
            b == v[Succ(i, 4)]
            c == v[Succ(Succ(i, 4), 4)]
        IN  /\ a # b
            /\ dot(subtract(a, b), subtract(c, b)) = 0

\* C12: Rectangle.isValid(v) is true iff v is four points that joined in
\* the given order form a non-degenerate rectangle, and the constructor
\* throws on every other list.
C12_RectangleIsValidExact ==
  /\ op = "Rectangle.isValid" => (result <=> IsRectangle(vertexes))
  /\ (op = "new Rectangle" /\ ~args.normalized)
     => (thrown <=> ~IsRectangle(vertexes))

\* C13: a constructor, with either value of the normalized flag, throws or
\* yields an object whose vertex list passes the isValid check of its class.
C13_NoDegenerateShape ==
  /\ (op = "new Triangle" /\ ~thrown) => triangleIsValid(result.vertexes)
  /\ (op = "new Rectangle" /\ ~thrown) => rectangleIsValid(result.vertexes)
  /\ (op = "new Polygon" /\ ~thrown) => polygonIsValid(result.vertexes)

----------------------------------------------------------------------------
(* Lines and line segments: construction from two points, rotation about   *)
(* a point by quarter turns, and the side of a line a point lies on.       *)

Quarters == 0..3

InitLines ==
  /\ yAxis = "up"
  /\ vertexes = None
  /\ other = None
  /\ point \in Points
  /\ segA = None
  /\ segB = None
  /\ args \in [start : Points, end : Points, quarter : Quarters]
  /\ op = "init"
  /\ result = None
  /\ thrown = FALSE

\* new Line(start, end)
NewLine ==
  LET l == Line(args.start, args.end)
  IN  /\ op' = "new Line"
      /\ thrown' = (l = Throw)
      /\ result' = IF l = Throw THEN None ELSE l
      /\ UNCHANGED Inputs

\* new LineSegment(start, end)
NewLineSegment ==
  LET s == LineSegment(args.start, args.end)
  IN  /\ op' = "new LineSegment"
      /\ thrown' = (s = Throw)
      /\ result' = IF s = Throw THEN None ELSE s
      /\ UNCHANGED Inputs

\* new Line(start, end).rotate(point, quarter * 90 degrees)
LineRotate ==
  /\ Line(args.start, args.end) # Throw
  /\ LET r == lineRotate(Line(args.start, args.end), point, args.quarter)
     IN  /\ op' = "Line.rotate"
         /\ thrown' = (r = Throw)
         /\ result' = IF r = Throw THEN None ELSE r
  /\ UNCHANGED Inputs

\* new LineSegment(start, end).rotate(point, quarter * 90 degrees)
LineSegmentRotate ==
  /\ LineSegment(args.start, args.end) # Throw
  /\ LET r == segmentRotate(LineSegment(args.start, args.end), point, args.quarter)
     IN  /\ op' = "LineSegment.rotate"
         /\ thrown' = (r = Throw)
         /\ result' = IF r = Throw THEN None ELSE r
  /\ UNCHANGED Inputs

\* point.relationToLine(l) and point.relationToLine(l reversed), for
\* l = new Line(start, end)
RelationToLine ==
  /\ Line(args.start, args.end) # Throw
  /\ op' = "relationToLine"
  /\ thrown' = FALSE
  /\ result' = [line |-> relationToLine(point, Line(args.start, args.end)),
                reversed |-> relationToLine(point, Line(args.end, args.start))]
  /\ UNCHANGED Inputs

NextLines ==
  \/ NewLine
  \/ NewLineSegment
  \/ LineRotate
  \/ LineSegmentRotate
  \/ RelationToLine

SpecLines == InitLines /\ [][NextLines]_vars

----------------------------------------------------------------------------
(* Claims about lines and line segments (SpecLines). *)

\* C14: new Line(s, e) and new LineSegment(s, e) throw iff s.equals(e), and
\* otherwise return an object whose start is s and whose end is e.
C14_DegenerateLineThrows ==
  op \in {"new Line", "new LineSegment"}
  => /\ thrown <=> pointEquals(args.start, args.end)
     /\ ~thrown => (result.start = args.start /\ result.end = args.end)

C14_Witness ==
  /\ op = "new LineSegment" /\ thrown
  /\ args.start = args.end

\* C15: rotate(o, angle) of a Line or LineSegment succeeds for quarter turns
\* and yields the receiver's start and end, each rotated about o; the
\* result is as long as the receiver.
C15_RotateRotatesBothEnds ==
  op \in {"Line.rotate", "LineSegment.rotate"}
  => /\ ~thrown
     /\ result.start = pointRotate(args.start, point, args.quarter)
     /\ result.end = pointRotate(args.end, point, args.quarter)
     /\ distanceTo2(result.start, result.end) = distanceTo2(args.start, args.end)

\* C16: reversing a line mirrors the side: "on" stays "on", and "left" and
\* "right" change places.
C16_RelationToLineMirrored ==
  op = "relationToLine"
  => /\ result.line = "on" <=> result.reversed = "on"
     /\ result.line = "left" <=> result.reversed = "right"
     /\ result.line = "right" <=> result.reversed = "left"

C16_Witness ==
  /\ op = "relationToLine"
  /\ result.line = "left" /\ result.reversed = "right"

----------------------------------------------------------------------------
(* Rigid motions of one polygon: translation by a displacement, rotation   *)
(* about a centre by quarter turns.                                        *)

\* The vertex lists new Polygon(v) accepts.
AcceptedPolygonLists ==
  {v \in UNION {[1..n -> Points] : n \in PolygonSizes} : polygonIsValid(v)}

InitPolygonMotion ==
  /\ yAxis = "up"
  /\ vertexes \in AcceptedPolygonLists
  /\ other = None
  /\ point \in Points
  /\ segA = None
  /\ segB = None
  /\ args \in [quarter : Quarters]
  /\ op = "init"
  /\ result = None
  /\ thrown = FALSE

\* P.isConvex() and P.translate(point).isConvex(), for P = new Polygon(vertexes)
PolygonTranslate ==
  LET g == Polygon(vertexes, FALSE)
      moved == polygonTranslate(g, point)
  IN  /\ op' = "Polygon.translate"
      /\ thrown' = (moved = Throw)
      /\ result' = IF moved = Throw THEN None
                    ELSE [vertexes |-> moved.vertexes,
                          before |-> polygonIsConvex(g),
                          after |-> polygonIsConvex(moved)]
      /\ UNCHANGED Inputs

\* P.isConvex() and P.rotate(point, quarter * 90 degrees).isConvex()
PolygonRotate ==
  LET g == Polygon(vertexes, FALSE)
      moved == polygonRotate(g, point, args.quarter)
  IN  /\ op' = "Polygon.rotate"
      /\ thrown' = (moved = Throw)
      /\ result' = IF moved = Throw THEN None
                    ELSE [vertexes |-> moved.vertexes,
                          before |-> polygonIsConvex(g),
                          after |-> polygonIsConvex(moved)]
      /\ UNCHANGED Inputs

NextPolygonMotion ==
  \/ PolygonTranslate
  \/ PolygonRotate

SpecPolygonMotion == InitPolygonMotion /\ [][NextPolygonMotion]_vars

\* C17: for every polygon the constructor accepts, translate and rotate by
\* quarter turns succeed and leave isConvex() unchanged.
C17_ConvexityInvariant ==
  op \in {"Polygon.translate", "Polygon.rotate"}
  => (~thrown /\ result.after = result.before)

----------------------------------------------------------------------------
(* Turning one rectangle about its centre: one rotation by 360 degrees, or *)
(* successive rotations by 90 degrees, each applied to the result of the   *)
(* one before.                                                             *)

\* Coordinates are multiples of 16, so that the centres of four successive
\* rotations are points with integer coordinates.
TurnPoints == [x : {16 * c : c \in Coords}, y : {16 * c : c \in Coords}]

\* The vertex lists new Rectangle(v) accepts.
AcceptedRectangleLists == {v \in [1..4 -> TurnPoints] : rectangleIsValid(v)}

InitRectangleTurn ==
  /\ yAxis \in {"up", "down"}
  /\ vertexes \in AcceptedRectangleLists
  /\ other = None
  /\ point = None
  /\ segA = None
  /\ segB = None
  /\ args = [turns |-> 0]
  /\ op = "init"
  /\ result = None
  /\ thrown = FALSE

\* r.rotate(r.corner('center'), 2 * Math.PI) for r = new Rectangle(vertexes)
RectangleRotateFull ==
  /\ op = "init"
  /\ LET r == Rectangle(vertexes, FALSE)
         turned == rectangleRotate(r, rectangleCorner(r, "center"), 4)
     IN  /\ op' = "Rectangle.rotate360"
         /\ thrown' = (turned = Throw)
         /\ result' = IF turned = Throw THEN None ELSE turned
  /\ UNCHANGED Inputs

\* r.rotate(r.corner('center'), Math.PI / 2), for r the result of the last
\* quarter turn, or new Rectangle(vertexes) before the first
RectangleRotateQuarter ==
  /\ op \in {"init", "Rectangle.rotate90"}
  /\ ~thrown
  /\ args.turns < 4
  /\ LET r == IF op = "init" THEN Rectangle(vertexes, FALSE) ELSE result
         turned == rectangleRotate(r, rectangleCorner(r, "center"), 1)
     IN  /\ op' = "Rectangle.rotate90"
         /\ thrown' = (turned = Throw)
         /\ result' = IF turned = Throw THEN None ELSE turned
  /\ args' = [turns |-> args.turns + 1]
  /\ UNCHANGED <<yAxis, vertexes, other, point, segA, segB>>

NextRectangleTurn ==
  \/ RectangleRotateFull
  \/ RectangleRotateQuarter

SpecRectangleTurn == InitRectangleTurn /\ [][NextRectangleTurn]_vars

\* The set of the elements of a sequence.
Range(v) == {v[i] : i \in 1..Len(v)}

FullTurnDone ==
  \/ op = "Rectangle.rotate360"
  \/ op = "Rectangle.rotate90" /\ args.turns = 4

\* C18: after a full turn of a rectangle about its centre, by one rotation
\* of 360 degrees or by four of 90 degrees, the result is a rectangle whose
\* four vertices are the original four vertices.
C18_FullTurnKeepsVertexSet ==
  (FullTurnDone /\ IsRectangle(vertexes))
  => (~thrown /\ Range(result.vertexes) = Range(vertexes))

C18_Witness ==
  /\ op = "Rectangle.rotate90" /\ args.turns = 4 /\ ~thrown
  /\ IsRectangle(vertexes)
  /\ ~isParallelToAxis(Rectangle(vertexes, FALSE))

----------------------------------------------------------------------------
(* Rectangle.create applied to one set of arguments. *)

\* Lengths and positions are multiples of 4, so that the midpoints of the
\* scaled sides are integers.
CreateLengths == {4 * c : c \in Coords}
CreateScales == Coords
CreateCorners == {Pt(0, 0), Pt(4, 8)}
CreateRotations == {-90, 0, 90, 180, 270, 360}
CreateOrigins ==
  {OriginName(name) : name \in AnchorNames \cup {"nowhere"}}
    \cup {OriginPoint(Pt(0, 0)), OriginPoint(Pt(8, 4))}
CreateTranslations == {Pt(0, 0), Pt(4, 0), Pt(-4, 8)}

InitCreate ==
  /\ yAxis \in {"up", "down"}
  /\ vertexes = None
  /\ other = None
  /\ point \in CreateCorners
  /\ segA = None
  /\ segB = None
  /\ args \in [width : CreateLengths, height : CreateLengths,
                scale : CreateScales, rotation : CreateRotations,
                rotationOrigin : CreateOrigins, translate : CreateTranslations]
  /\ op = "init"
  /\ result = None
  /\ thrown = FALSE

\* Rectangle.create(point.x, point.y, width, height, scale, rotation,
\* rotationOrigin, translate)
RectangleCreate ==
  LET r == rectangleCreate(point.x, point.y, args.width, args.height, args.scale,
                           args.rotation, args.rotationOrigin, args.translate)
  IN  /\ op' = "Rectangle.create"
      /\ thrown' = (r = Throw)
      /\ result' = IF r = Throw THEN None ELSE r
      /\ UNCHANGED Inputs

NextCreate == RectangleCreate

SpecCreate == InitCreate /\ [][NextCreate]_vars

\* One quarter turn (90 degrees) of p about o.
QuarterTurn(p, o) == Pt(o.x - (p.y - o.y), o.y + (p.x - o.x))

\* p turned about o by n quarter turns, n in 0..3.
Turned(p, o, n) ==
  CASE n = 0 -> p
    [] n = 1 -> QuarterTurn(p, o)
    [] n = 2 -> QuarterTurn(QuarterTurn(p, o), o)
    [] OTHER -> QuarterTurn(QuarterTurn(QuarterTurn(p, o), o), o)

\* The four corners of the axis-parallel rectangle with top-left corner
\* (left, top), width w and height h; "below" is towards smaller y when the
\* Y axis points up and towards larger y when it points down.
AxisRectangle(left, top, w, h) ==
  LET bottom == IF yAxis = "up" THEN top - h ELSE top + h
  IN  [tl |-> Pt(left, top), tr |-> Pt(left + w, top),
       br |-> Pt(left + w, bottom), bl |-> Pt(left, bottom)]

\* The named anchor of such a rectangle: column 0, 1, 2 of 2 from the left
\* side and row 0, 1, 2 of 2 from the top side.
AnchorOf(q, name) ==
  LET col == CASE name \in {"top-left", "middle-left", "bottom-left"} -> 0
               [] name \in {"top-center", "center", "bottom-center"} -> 1
               [] OTHER -> 2
      row == CASE name \in {"top-left", "top-center", "top-right"} -> 0
               [] name \in {"middle-left", "center", "middle-right"} -> 1
               [] OTHER -> 2
  IN  Pt(q.tl.x + (col * (q.tr.x - q.tl.x)) \div 2,
         q.tl.y + (row * (q.bl.y - q.tl.y)) \div 2)

NineNames ==
  {"top-left", "top-center", "top-right", "middle-left", "center",
   "middle-right", "bottom-left", "bottom-center", "bottom-right"}

\* The origin argument is a Point or one of the nine names.
OriginGiven ==
  args.rotationOrigin.kind = "Point" \/ args.rotationOrigin.name \in NineNames

\* The vertices the scale-rotate-translate order prescribes.
CreateExpected ==
  LET q == AxisRectangle(point.x, point.y, args.width * args.scale,
                         args.height * args.scale)
      o == IF args.rotationOrigin.kind = "Point" THEN args.rotationOrigin.point
           ELSE AnchorOf(q, args.rotationOrigin.name)
      n == (args.rotation \div 90) % 4
      Place(p) == add(Turned(p, o, n), args.translate)
  IN  {Place(q.tl), Place(q.tr), Place(q.br), Place(q.bl)}

\* C19: the vertices of create(left, top, w, h, s, rot, origin, t) are those
\* of the axis-parallel rectangle at (left, top) of width w*s and height
\* h*s, rotated by rot about origin (a Point, or the named anchor of that
\* scaled rectangle) and then displaced by t.
C19_CreateScaleRotateTranslate ==
  (op = "Rectangle.create" /\ OriginGiven)
  => (~thrown /\ Range(result.vertexes) = CreateExpected)

C19_Witness ==
  /\ op = "Rectangle.create" /\ ~thrown
  /\ args.scale = 2 /\ args.width = 4 /\ args.height = 8
  /\ args.rotation = 90
  /\ args.rotationOrigin = OriginName("top-right")
  /\ args.translate = Pt(-4, 8)

----------------------------------------------------------------------------
(* Asking one rectangle for an anchor by name. *)

PositionNames == NineNames \cup {"middle", "top", "centre", "toString", ""}

InitAnchors ==
  /\ yAxis \in {"up", "down"}
  /\ vertexes \in AcceptedRectangleLists
  /\ other = None
  /\ point = None
  /\ segA = None
  /\ segB = None
  /\ args \in [position : PositionNames]
  /\ op = "init"
  /\ result = None
  /\ thrown = FALSE

\* new Rectangle(vertexes).corner(position)
RectangleCorner ==
  LET r == Rectangle(vertexes, FALSE)
      c == rectangleCorner(r, args.position)
  IN  /\ op' = "Rectangle.corner"
      /\ thrown' = (c = Throw)
      /\ result' = IF c = Throw THEN None ELSE c
      /\ UNCHANGED Inputs

NextAnchors == RectangleCorner

SpecAnchors == InitAnchors /\ [][NextAnchors]_vars

\* The anchor the constructor stored under a name: the four corners are the
\* vertexes 0..3 in their stored order, the others the midpoints of two of
\* them.
StoredAnchor(v, name) ==
  LET Mid(a, b) == Pt((a.x + b.x) \div 2, (a.y + b.y) \div 2)
  IN  CASE name = "top-left" -> v[1]
        [] name = "top-center" -> Mid(v[1], v[2])
        [] name = "top-right" -> v[2]
        [] name = "middle-left" -> Mid(v[1], v[4])
        [] name = "center" -> Mid(v[1], v[3])
        [] name = "middle-right" -> Mid(v[2], v[3])
        [] name = "bottom-left" -> v[4]
        [] name = "bottom-center" -> Mid(v[4], v[3])
        [] OTHER -> v[3]

\* C20: corner(position) returns the stored anchor for each of the nine
\* names and throws for every other name.
C20_AnchorByName ==
  op = "Rectangle.corner"
  => IF args.position \in NineNames
     THEN ~thrown /\ result = StoredAnchor(Rectangle(vertexes, FALSE).vertexes,
                                           args.position)
     ELSE thrown

C20_Witness ==
  /\ op = "Rectangle.corner" /\ thrown
  /\ args.position = "middle"

----------------------------------------------------------------------------
(* The area and the centre of the triangles built from the orderings of    *)
(* three points.                                                           *)

TrianglePoints == [x : 0..(MaxCoord + 2), y : 0..(MaxCoord + 1)]

InitTriangle ==
  /\ yAxis = "up"
  /\ vertexes \in [1..3 -> TrianglePoints]
  /\ other = None
  /\ point = None
  /\ segA = None
  /\ segB = None
  /\ args = None
  /\ op = "init"
  /\ result = None
  /\ thrown = FALSE

\* area() and center() of new Triangle(vertexes) and of new Triangle(w), for
\* an ordering w of the same vertexes.
TriangleArea ==
  \E w \in Orderings(vertexes) :
    LET this == Triangle(vertexes, FALSE)
        t == Triangle(w, FALSE)
    IN  /\ op' = "Triangle.area"
        /\ thrown' = (this = Throw \/ t = Throw)
        /\ result' = IF this = Throw \/ t = Throw THEN None
                      ELSE [ordering |-> w,
                            area2 |-> triangleArea2(this),
                            center3 |-> triangleCenter3(this),
                            orderingArea2 |-> triangleArea2(t),
                            orderingCenter3 |-> triangleCenter3(t)]
        /\ UNCHANGED Inputs

NextTriangle == TriangleArea

SpecTriangle == InitTriangle /\ [][NextTriangle]_vars

\* C21: the triangles built from every ordering of three non-collinear
\* points have the same area and the same centre; the points (0,0), (4,0),
\* (0,3) make a valid triangle of area 6.
C21_AreaCenterOrderIndependent ==
  op = "Triangle.area"
  => /\ thrown <=> times(vertexes[1], vertexes[2], vertexes[3]) = 0
     /\ ~thrown => /\ result.area2 = result.orderingArea2
                    /\ result.center3 = result.orderingCenter3
     /\ Range(vertexes) = {Pt(0, 0), Pt(4, 0), Pt(0, 3)}
        => (~thrown /\ result.area2 = 2 * 6)

C21_Witness ==
  /\ op = "Triangle.area" /\ ~thrown
  /\ vertexes = <<Pt(0, 0), Pt(4, 0), Pt(0, 3)>>
  /\ result.ordering = <<Pt(0, 3), Pt(4, 0), Pt(0, 0)>>
  /\ result.area2 = 12

----------------------------------------------------------------------------
(* Ownership of the vertex array.  `vertexes` is the array the caller      *)
(* passed to new Polygon(vertexes), `other` is the array this._vertexes of *)
(* the polygon, and args.reported is the list vertexes() reported first.   *)
(* The constructor stores a new array (normalize builds one, slice copies  *)
(* one); vertexes() returns this._vertexes itself, and Object.freeze(this) *)
(* freezes the polygon's fields, not the array they refer to.              *)

\* A point the caller writes into an array it holds.
Elsewhere == Pt(-1, -1)

\* The reference vertexes() returns.
ThisVertexes == [ref |-> "this._vertexes"]

InitOwnership ==
  /\ yAxis \in {"up", "down"}
  /\ vertexes \in {v \in [1..3 -> Points] : polygonIsValid(v)}
  /\ other = Polygon(vertexes, FALSE).vertexes
  /\ point = None
  /\ segA = None
  /\ segB = None
  /\ args = [reported |-> Polygon(vertexes, FALSE).vertexes]
  /\ op = "init"
  /\ result = None
  /\ thrown = FALSE

\* vertexes[i] = Elsewhere, on the array that was passed to the constructor
WriteCallerArray ==
  \E i \in 1..Len(vertexes) :
    /\ vertexes' = [vertexes EXCEPT ![i] = Elsewhere]
    /\ op' = "write caller array"
    /\ result' = None
    /\ thrown' = FALSE
    /\ UNCHANGED <<yAxis, other, point, segA, segB, args>>

\* polygon.vertexes()
GetVertexes ==
  /\ op' = "Polygon.vertexes"
  /\ result' = ThisVertexes
  /\ thrown' = FALSE
  /\ UNCHANGED Inputs

\* a[i] = Elsewhere, on the array a that vertexes() just returned
WriteReturnedArray ==
  /\ op = "Polygon.vertexes"
  /\ \E i \in 1..Len(other) :
       other' = [other EXCEPT ![i] = Elsewhere]
  /\ op' = "write returned array"
  /\ result' = None
  /\ thrown' = FALSE
  /\ UNCHANGED <<yAxis, vertexes, point, segA, segB, args>>

\* polygon.translate(delta): a new polygon; the receiver keeps its array
TranslateReceiver ==
  \E delta \in {Pt(1, 0), Pt(0, 1)} :
    LET moved == polygonTranslate([vertexes |-> other], delta)
    IN  /\ op' = "Polygon.translate"
        /\ thrown' = (moved = Throw)
        /\ result' = IF moved = Throw THEN None ELSE moved
        /\ UNCHANGED Inputs

NextOwnership ==
  \/ WriteCallerArray
  \/ GetVertexes
  \/ WriteReturnedArray
  \/ TranslateReceiver

SpecOwnership == InitOwnership /\ [][NextOwnership]_vars

\* C22: once a shape is built, the vertex list its accessor reports never
\* changes: not by writing to the array passed to the constructor, not by
\* writing to the array vertexes() returned, not by translate.
C22_ShapesImmutable ==
  op # "init" => other = args.reported

----------------------------------------------------------------------------
(* Relations of two lines, each through two distinct grid points. *)

LineInputs == {l \in [start : Points, end : Points] : Line(l.start, l.end) # Throw}

InitLinePairs ==
  /\ yAxis = "up"
  /\ vertexes = None
  /\ other = None
  /\ point = None
  /\ segA \in LineInputs
  /\ segB \in LineInputs
  /\ args = None
  /\ op = "init"
  /\ result = None
  /\ thrown = FALSE

\* segA.intersectionPointWith(segB), with segA.relationTo(segB)
LineIntersectionPointWith ==
  /\ op' = "Line.intersectionPointWith"
  /\ thrown' = FALSE
  /\ result' = [point |-> lineIntersectionPointWith(segA, segB),
                relation |-> lineRelationTo(segA, segB)]
  /\ UNCHANGED Inputs

\* segA.compareTo(segB), segB.compareTo(segA) and segA.equals(segB)
LineCompareTo ==
  /\ op' = "Line.compareTo"
  /\ thrown' = FALSE
  /\ result' = [compareTo |-> lineCompareTo(segA, segB),
                reversed |-> lineCompareTo(segB, segA),
                equals |-> lineEquals(segA, segB)]
  /\ UNCHANGED Inputs

NextLinePairs ==
  \/ LineIntersectionPointWith
  \/ LineCompareTo

SpecLinePairs == InitLinePairs /\ [][NextLinePairs]_vars

C30_CompareToConsistent ==
  op = "Line.compareTo"
  => /\ result.compareTo = -result.reversed
     /\ result.compareTo = 0 <=> result.equals

----------------------------------------------------------------------------
(* Utils.js on numbers as small as EPS.  A number is kept as a count of
   half tolerances, so that EPS itself is the count FINE_EPS and values
   strictly between 0 and EPS exist. *)

FINE_EPS == 2

FineNumbers == (-(FINE_EPS + MaxCoord))..(FINE_EPS + MaxCoord)

\* Math.abs(x - y) <= EPS
fine_eq(x, y) == Abs(x - y) <= FINE_EPS

\* Math.abs(x - y) > EPS
fine_neq(x, y) == Abs(x - y) > FINE_EPS

\* x < y + EPS
fine_lt(x, y) == x < y + FINE_EPS

\* x <= y + EPS
fine_leq(x, y) == x <= y + FINE_EPS

\* x + EPS > y
fine_gt(x, y) == x + FINE_EPS > y

\* x + EPS >= y
fine_geq(x, y) == x + FINE_EPS >= y

\* Math.abs(x) <= EPS
fine_isZero(x) == Abs(x) <= FINE_EPS

\* A variant of isPositive that includes EPS itself: x >= EPS
fine_isPositive_Inclusive(x) == x >= FINE_EPS

\* x > EPS
fine_isPositive(x) == x > FINE_EPS

\* x < -EPS
fine_isNegative(x) == x < -FINE_EPS

fine_sign(x) == IF fine_isZero(x) THEN 0 ELSE IF x < 0 THEN -1 ELSE 1

InitTolerance ==
  /\ yAxis = "up"
  /\ vertexes = None
  /\ other = None
  /\ point = None
  /\ segA = None
  /\ segB = None
  /\ args \in [a : FineNumbers, b : FineNumbers]
  /\ op = "init"
  /\ result = None
  /\ thrown = FALSE

\* isNegative, isZero, isPositive and sign of a; eq and neq of a and b
Classify ==
  /\ op' = "Utils.sign"
  /\ thrown' = FALSE
  /\ result' = [isNegative |-> fine_isNegative(args.a),
                isZero |-> fine_isZero(args.a),
                isPositive |-> fine_isPositive(args.a),
                sign |-> fine_sign(args.a),
                eq |-> fine_eq(args.a, args.b),
                neq |-> fine_neq(args.a, args.b)]
  /\ UNCHANGED Inputs

\* lt, eq, gt, leq and geq of a and b, and gt of b and a
Compare ==
  /\ op' = "Utils.lt"
  /\ thrown' = FALSE
  /\ result' = [lt |-> fine_lt(args.a, args.b),
                eq |-> fine_eq(args.a, args.b),
                gt |-> fine_gt(args.a, args.b),
                leq |-> fine_leq(args.a, args.b),
                geq |-> fine_geq(args.a, args.b),
                gtReversed |-> fine_gt(args.b, args.a)]
  /\ UNCHANGED Inputs

NextTolerance ==
  \/ Classify
  \/ Compare

SpecTolerance == InitTolerance /\ [][NextTolerance]_vars

Count(bools) == Cardinality({i \in DOMAIN bools : bools[i]})

\* C24: exactly one of isNegative, isZero, isPositive holds, isZero means
\* |x| <= EPS, sign is -1, 0, +1 respectively; eq means |a - b| <= EPS and
\* neq is its negation.
C24_SignPartition ==
  op = "Utils.sign"
  => /\ Count(<<result.isNegative, result.isZero, result.isPositive>>) = 1
     /\ result.isZero <=> Abs(args.a) <= FINE_EPS
     /\ result.isNegative => result.sign = -1
     /\ result.isZero => result.sign = 0
     /\ result.isPositive => result.sign = 1
     /\ result.eq <=> Abs(args.a - args.b) <= FINE_EPS
     /\ result.neq <=> ~result.eq

C24_Witness ==
  /\ op = "Utils.sign"
  /\ args.a = FINE_EPS
  /\ result.isZero
  /\ args.b = -1
  /\ result.neq

\* C29: exactly one of lt, eq, gt holds; lt(a, b) iff gt(b, a); leq is lt
\* or eq; geq is gt or eq; lt(a, a) and gt(a, a) are false.
C29_Trichotomy ==
  op = "Utils.lt"
  => /\ Count(<<result.lt, result.eq, result.gt>>) = 1
     /\ result.lt <=> result.gtReversed
     /\ result.leq <=> (result.lt \/ result.eq)
     /\ result.geq <=> (result.gt \/ result.eq)
     /\ args.a = args.b => ~result.lt /\ ~result.gt

----------------------------------------------------------------------------
(* Claims about LineSegment.intersectsWith (SpecSegments). *)

IntersectsWithRan == op = "LineSegment.intersectsWith" /\ ~thrown

----------------------------------------------------------------------------
(* Claims about LineSegment.intersectionPointWith (SpecSegments). *)

IntersectionPointRan == op = "LineSegment.intersectionPointWith" /\ ~thrown

\* p lies on the segment s and is not one of its end points.
Interior(p, s) == OnSegment(p, s.start, s.end) /\ p \notin {s.start, s.end}

\* Two segments on one line have more than one point in common.
Overlap(a, b) ==
  \/ Interior(a.start, b) \/ Interior(a.end, b)
  \/ Interior(b.start, a) \/ Interior(b.end, a)
  \/ {a.start, a.end} = {b.start, b.end}

\* The result is the Point q.
IsPoint(r, q) == r.kind = "Point" /\ r.x = q.x * r.r /\ r.y = q.y * r.r

----------------------------------------------------------------------------
(* A polygon moved again and again: every translate and rotate is applied  *)
(* to the polygon the previous call returned.                              *)

MaxMoves == 2

Displacements == {Pt(1, 0), Pt(0, -1)}

InitPolygonPath ==
  /\ yAxis = "up"
  /\ vertexes \in {Polygon(v, FALSE).vertexes : v \in AcceptedPolygonLists}
  /\ other = None
  /\ point = None
  /\ segA = None
  /\ segB = None
  /\ args = [moves |-> 0]
  /\ op = "init"
  /\ result = None
  /\ thrown = FALSE

\* P = P.translate(d)
PathTranslate ==
  /\ ~thrown
  /\ args.moves < MaxMoves
  /\ \E d \in Displacements :
       LET moved == polygonTranslate([vertexes |-> vertexes], d)
       IN  /\ op' = "Polygon.translate"
           /\ thrown' = (moved = Throw)
           /\ vertexes' = IF moved = Throw THEN vertexes ELSE moved.vertexes
           /\ result' = IF moved = Throw THEN None ELSE polygonIsValid(moved.vertexes)
  /\ args' = [moves |-> args.moves + 1]
  /\ UNCHANGED <<yAxis, other, point, segA, segB>>

\* P = P.rotate(o, k * 90 degrees)
PathRotate ==
  /\ ~thrown
  /\ args.moves < MaxMoves
  /\ \E k \in 1..3 :
       LET moved == polygonRotate([vertexes |-> vertexes], Pt(0, 0), k)
       IN  /\ op' = "Polygon.rotate"
           /\ thrown' = (moved = Throw)
           /\ vertexes' = IF moved = Throw THEN vertexes ELSE moved.vertexes
           /\ result' = IF moved = Throw THEN None ELSE polygonIsValid(moved.vertexes)
  /\ args' = [moves |-> args.moves + 1]
  /\ UNCHANGED <<yAxis, other, point, segA, segB>>

NextPolygonPath ==
  \/ PathTranslate
  \/ PathRotate

SpecPolygonPath == InitPolygonPath /\ [][NextPolygonPath]_vars

\* C27: starting from a constructed polygon, every translate and every
\* rotate by quarter turns completes without throwing and its result passes
\* Polygon.isValid.
C27_MotionsNeverReject ==
  op \in {"Polygon.translate", "Polygon.rotate"} => (~thrown /\ result = TRUE)

----------------------------------------------------------------------------
(* LineSegment.isInsidePolygon: a segment with end points on a fine grid   *)
(* against a polygon with vertices on every FINE-th point of that grid.    *)

FINE == 4

\* The end points of the input segments: the points of the fine grid that
\* are not on its border.
FinePoints == [x : 1..(FINE * MaxCoord - 1), y : 1..(FINE * MaxCoord - 1)]

\* The input segments, each taken in one direction.
FineSegments ==
  {s \in [start : FinePoints, end : FinePoints] : pointCompareTo(s.start, s.end) < 0}

Scaled(v) == [i \in DOMAIN v |-> Pt(FINE * v[i].x, FINE * v[i].y)]

\* p.isInsidePolygon(polygon)
isInsidePolygon(p, polygon) == relationToPolygon(p, polygon) = "inside"

\* polygon.vertexes.length: vertexes is the method vertexes(), and the length
\* of a function is the number of its parameters.
VertexesLength == 0

\* s.isInsidePolygon(polygon) throws: the body of the first loop builds a
\* LineSegment from polygon[i], which is undefined.
segmentIsInsidePolygonThrows(s, polygon) ==
  /\ isInsidePolygon(s.start, polygon)
  /\ isInsidePolygon(s.end, polygon)
  /\ VertexesLength > 0

\* s.isInsidePolygon(polygon) when it returns: with n = 0 the first loop
\* adds nothing to pts, and the second loop has no pair of points to test.
segmentIsInsidePolygon(s, polygon) ==
  IF ~isInsidePolygon(s.start, polygon) \/ ~isInsidePolygon(s.end, polygon)
  THEN FALSE
  ELSE TRUE

InitSegmentInPolygon ==
  /\ yAxis = "up"
  /\ vertexes \in {Polygon(Scaled(v), FALSE).vertexes :
                     v \in {w \in PolygonLists : polygonIsValid(Scaled(w))}}
  /\ other = None
  /\ point = None
  /\ segA \in FineSegments
  /\ segB = None
  /\ args = None
  /\ op = "init"
  /\ result = None
  /\ thrown = FALSE

\* segA.isInsidePolygon(P) for the polygon P with the vertexes `vertexes`
SegmentIsInsidePolygon ==
  LET polygon == Polygon(vertexes, TRUE)
  IN  /\ op' = "LineSegment.isInsidePolygon"
      /\ thrown' = segmentIsInsidePolygonThrows(segA, polygon)
      /\ result' = IF segmentIsInsidePolygonThrows(segA, polygon) THEN None
                    ELSE segmentIsInsidePolygon(segA, polygon)
      /\ UNCHANGED Inputs

NextSegmentInPolygon ==
  \/ SegmentIsInsidePolygon

SpecSegmentInPolygon == InitSegmentInPolygon /\ [][NextSegmentInPolygon]_vars

\* The segment s passes from one side of an edge of the polygon with the
\* vertex list v to the other, at a point inside both.
CrossesEdge(s, v) ==
  \E i \in 1..Len(v) :
    LET c == v[i]
        e == v[Succ(i, Len(v))]
    IN  /\ Sgn(times(s.start, s.end, c)) * Sgn(times(s.start, s.end, e)) < 0
        /\ Sgn(times(c, e, s.start)) * Sgn(times(c, e, s.end)) < 0

\* C28: isInsidePolygon never throws, and it returns false for a segment
\* that crosses an edge of the polygon (part of the segment is outside).
C28_InsideOnlyIfWithin ==
  op = "LineSegment.isInsidePolygon"
  => /\ ~thrown
     /\ CrossesEdge(segA, vertexes) => result = FALSE

====
